---- MODULE Spec2Model ----
(***************************************************************************)
(* The Library screen of PrivatePixel (src/app/(tabs)/library.tsx, the     *)
(* first LibraryScreen component, lines 332-1120): the media collection,   *)
(* the manual albums, the active album, album edit mode, select-for-upload *)
(* mode, and the asynchronous refresh / sync / device scan / upload        *)
(* operations.  Strings are modelled as strings: an id such as             *)
(* `manual-${Date.now()}` is "manual-" \o ToString(clock).                 *)
(***************************************************************************)
EXTENDS Integers, Sequences, FiniteSets, TLC

VARIABLES
  media,              \* useState<MediaItem[]>(initialMedia)
  filter,             \* "all" | "photos" | "videos"
  manualAlbums,       \* useState<ManualAlbum[]>([])
  activeAlbum,        \* ActiveAlbum: null | smart | manual
  albumEditMode,
  refreshing,
  syncing,
  scanningDevice,
  renameModalVisible,
  renameText,
  selectMode,
  selectedIds,
  uploading,
  clock,              \* the value Date.now() returns
  inFlight,           \* handleRefresh calls waiting on their 700 ms timer, oldest
                      \* first: who started each, and Date.now() at its start
  scanPc,             \* where handleScanDevice is suspended
  scanItems,          \* the records built from the enumerated assets
  deleteAlert,        \* the album captured by the open "Delete album" alert
  grouped,            \* the items argument of the last groupMedia call
  today,              \* the value new Date() had in that call, in ms of local time
  groups,             \* what that call returned
  people,             \* People screen: useState<Person[]>(initialPeople)
  selectedPerson,     \* the Person of the details modal: <<>> for null
  editingName,
  savingName,
  saveTimers          \* the 400 ms timers of handleSaveName, oldest first: the
                      \* id and the name each closure captured

vars == <<media, filter, manualAlbums, activeAlbum, albumEditMode, refreshing,
          syncing, scanningDevice, renameModalVisible, renameText, selectMode,
          selectedIds, uploading, clock, inFlight, scanPc, scanItems, deleteAlert,
          grouped, today, groups, people, selectedPerson, editingName, savingName,
          saveTimers>>

mediaVars  == <<media, refreshing, syncing, scanningDevice, inFlight, scanPc, scanItems>>
albumVars  == <<manualAlbums, activeAlbum, albumEditMode, deleteAlert>>
renameVars == <<renameModalVisible, renameText>>
selectVars == <<selectMode, selectedIds, uploading>>
groupVars  == <<grouped, today, groups>>
peopleVars == <<people, selectedPerson, editingName, savingName, saveTimers>>

----------------------------------------------------------------------------
(* Bounds of the model *)

ClockStart == 100     \* Date.now() when the screen mounts
MaxTicks == 1         \* how far the clock advances
MaxAlbums == 2        \* manual albums alive at once
MaxEdited == 1        \* the same, where album membership is edited as well
MaxTap == 2           \* the user taps among the first MaxTap visible items
MaxMedia == 8         \* refresh and scan stop growing the collection here
MaxInFlight == 2      \* overlapping handleRefresh calls
MaxScanLen == 2       \* assets returned by one enumeration
GroupDay == 10        \* the local day, counted from the epoch, groupMedia runs on
MaxGroupLen == 3      \* items in one groupMedia call
MaxFirst == 1         \* the taps of the timeline specification reach this far
MaxListed == 1        \* records the scans of that specification store

\* the person cards, from the first of the list, that the model taps
MaxPersons == 2

\* the saves of a name that wait on their timer at one time
MaxSaves == 2

----------------------------------------------------------------------------
(* Values *)

NoCover == "undefined"                    \* coverMediaId?: absent
NoAlbum == [kind |-> "none", id |-> ""]   \* ActiveAlbum null
NoAlert == "no-alert"

DeviceAssetIds == {"a", "b"}

Range(s) == {s[i] : i \in DOMAIN s}

Ids(items) == {items[i].id : i \in DOMAIN items}

DayMs == 86400000     \* one calendar day of local time, in ms

\* a createdAt string as new Date reads it back: the instant t, in ms
ValidDate(t) == [valid |-> TRUE, time |-> t]

\* daysAgo(n), called while the module loads
daysAgo(n) == ValidDate(ClockStart - n * DayMs)

\* one record of the media list; uri and exif are not modelled
MediaItem(id, createdAt, type, source, width, height) ==
  [id |-> id, createdAt |-> createdAt, type |-> type, source |-> source,
   width |-> width, height |-> height]

initialMedia ==
  << MediaItem("1", daysAgo(0), "photo", "mock", 400, 400),
     MediaItem("2", daysAgo(0), "photo", "mock", 400, 400),
     MediaItem("3", daysAgo(1), "video", "mock", 1920, 1080),
     MediaItem("4", daysAgo(2), "photo", "mock", 400, 400),
     MediaItem("5", daysAgo(5), "video", "mock", 1280, 720),
     MediaItem("6", daysAgo(12), "photo", "mock", 400, 400) >>

\* a Person, without the count, the avatar and the photos, which no handler
\* changes
Person(id, name, isKnown) == [id |-> id, name |-> name, isKnown |-> isKnown]

initialPeople ==
  << Person("you", "You", TRUE),
     Person("u1", "Unknown 1", FALSE),
     Person("u2", "Unknown 2", FALSE),
     Person("u3", "Unknown 3", FALSE) >>

----------------------------------------------------------------------------
(* Pure helpers *)

\* Array.from(new Set(arr)): first occurrences, in insertion order
RECURSIVE ArrayFromSet(_)
ArrayFromSet(arr) ==
  IF arr = <<>> THEN <<>>
  ELSE LET front == ArrayFromSet(SubSeq(arr, 1, Len(arr) - 1))
           last == arr[Len(arr)]
       IN IF last \in Range(front) THEN front ELSE Append(front, last)

\* set.add(x); Array.from(set)
SetAdd(arr, x) ==
  LET s == ArrayFromSet(arr) IN IF x \in Range(s) THEN s ELSE Append(s, x)

\* set.delete(x); Array.from(set)
SetDelete(arr, x) == SelectSeq(ArrayFromSet(arr), LAMBDA y : y # x)

\* manualAlbums.find((a) => a.id === id), as an index (0 when there is none)
FindAlbum(albums, id) ==
  IF \E i \in DOMAIN albums : albums[i].id = id
  THEN CHOOSE i \in DOMAIN albums :
         albums[i].id = id /\ \A j \in 1..(i - 1) : albums[j].id # id
  ELSE 0

\* activeManualAlbum, as an index into manualAlbums (0 is null)
activeManualAlbum ==
  IF activeAlbum.kind # "manual" THEN 0
  ELSE FindAlbum(manualAlbums, activeAlbum.id)

\* a mediaForTimeline that keeps the album restriction in album edit mode
mediaForTimelineAlwaysScoped ==
  LET album == FindAlbum(manualAlbums, activeAlbum.id)
      base1 ==
        IF activeAlbum = NoAlbum THEN media
        ELSE IF activeAlbum.kind = "smart"
             THEN IF activeAlbum.id = "device"
                  THEN SelectSeq(media, LAMBDA m : m.source = "device")
                  ELSE IF activeAlbum.id = "videos"
                       THEN SelectSeq(media, LAMBDA m : m.type = "video")
                       ELSE media
             ELSE IF album # 0
                  THEN SelectSeq(media,
                         LAMBDA m : m.id \in Range(manualAlbums[album].mediaIds))
                  ELSE media
  IN IF filter = "photos" THEN SelectSeq(base1, LAMBDA m : m.type = "photo")
     ELSE IF filter = "videos" THEN SelectSeq(base1, LAMBDA m : m.type = "video")
     ELSE base1

\* mediaForTimeline
mediaForTimeline ==
  LET base0 == media
      album == FindAlbum(manualAlbums, activeAlbum.id)
      base1 ==
        IF ~albumEditMode /\ activeAlbum # NoAlbum
        THEN IF activeAlbum.kind = "smart"
             THEN IF activeAlbum.id = "device"
                  THEN SelectSeq(base0, LAMBDA m : m.source = "device")
                  ELSE IF activeAlbum.id = "videos"
                       THEN SelectSeq(base0, LAMBDA m : m.type = "video")
                       ELSE base0
             ELSE IF album # 0
                  THEN SelectSeq(base0,
                         LAMBDA m : m.id \in Range(manualAlbums[album].mediaIds))
                  ELSE base0
        ELSE base0
  IN IF filter = "photos" THEN SelectSeq(base1, LAMBDA m : m.type = "photo")
     ELSE IF filter = "videos" THEN SelectSeq(base1, LAMBDA m : m.type = "video")
     ELSE base1

\* the grid items the user can reach with a tap or a long press
TappableUpTo(n) == {mediaForTimeline[i].id :
                      i \in 1..(IF Len(mediaForTimeline) < n
                                THEN Len(mediaForTimeline) ELSE n)}

Tappable == TappableUpTo(MaxTap)

\* a makeSmart that pushes its entry also when nothing matches
SmartEntryAlways(id, title, items) ==
  << [id |-> id, title |-> title, count |-> Len(items),
      cover |-> IF items = <<>> THEN <<>> ELSE <<items[1]>>, kind |-> "smart"] >>

\* makeSmart, given the records its predicate keeps: the entry it pushes, if any;
\* cover is the record whose uri is shown
SmartEntry(id, title, items) ==
  IF items = <<>> THEN <<>>
  ELSE << [id |-> id, title |-> title, count |-> Len(items),
           cover |-> <<items[1]>>, kind |-> "smart"] >>

\* a cover taken from the first id of mediaIds
CoverMediaOfFirstId(album) ==
  IF album.mediaIds = <<>> THEN <<>>
  ELSE LET found == SelectSeq(media, LAMBDA m : m.id = album.mediaIds[1])
       IN IF found = <<>> THEN <<>> ELSE <<found[1]>>

\* coverMedia of a manual album: empty when both finds return undefined
CoverMedia(album) ==
  LET byCover == SelectSeq(media, LAMBDA m : m.id = album.coverMediaId)
      byMember == SelectSeq(media, LAMBDA m : m.id \in Range(album.mediaIds))
  IN IF byCover # <<>> THEN <<byCover[1]>>
     ELSE IF byMember # <<>> THEN <<byMember[1]>>
     ELSE <<>>

\* albums: the entries of the albums row, smart ones first
albums ==
  SmartEntry("all", "All media", media)
  \o SmartEntry("device", "From device", SelectSeq(media, LAMBDA m : m.source = "device"))
  \o SmartEntry("videos", "Videos", SelectSeq(media, LAMBDA m : m.type = "video"))
  \o [i \in DOMAIN manualAlbums |->
        [id |-> manualAlbums[i].id, title |-> manualAlbums[i].title,
         count |-> Len(manualAlbums[i].mediaIds),
         cover |-> CoverMedia(manualAlbums[i]), kind |-> "manual"]]

\* the album cards of the albums row, as handlePressAlbum receives them
AlbumCards == {[kind |-> albums[i].kind, id |-> albums[i].id] : i \in DOMAIN albums}

\* a merge that forgets the id filter
mergeScanAppendAll(prev, items) == prev \o items

\* a merge that lets the scanned record replace the stored one
mergeScanOverwrite(prev, items) ==
  [i \in DOMAIN prev |->
     IF \E j \in DOMAIN items : items[j].id = prev[i].id
     THEN items[CHOOSE j \in DOMAIN items : items[j].id = prev[i].id]
     ELSE prev[i]]
  \o SelectSeq(items, LAMBDA i : i.id \notin Ids(prev))

\* a merge that stores the scanned batch in place of the collection
mergeScanReplace(prev, items) == items

\* the device-scan merge: prev => [...prev, ...items.filter(i => !ids.has(i.id))]
mergeScan(prev, items) ==
  prev \o SelectSeq(items, LAMBDA i : i.id \notin Ids(prev))

\* what the media library reports for the assets of the device: "a" was taken
\* at the instant and with the size of the first seeds, "b" three days earlier
AssetCreationTime(assetId) == IF assetId = "a" THEN daysAgo(0) ELSE daysAgo(3)
AssetWidth(assetId) == IF assetId = "a" THEN 400 ELSE 4032
AssetHeight(assetId) == IF assetId = "a" THEN 400 ELSE 3024

\* the record handleScanDevice builds for one asset
DeviceItem(assetId, type) ==
  MediaItem("device-" \o assetId, AssetCreationTime(assetId), type, "device",
            AssetWidth(assetId), AssetHeight(assetId))

DeviceItems == {DeviceItem(a, t) : a \in DeviceAssetIds, t \in {"photo", "video"}}

ScanBatchesUpTo(limit) == UNION {[1..n -> DeviceItems] : n \in 0..limit}

ScanBatches == ScanBatchesUpTo(MaxScanLen)

\* clearSelection
clearSelection == selectedIds' = {}

\* no modal dialog is in front of the screen
ScreenFree == deleteAlert = NoAlert /\ ~renameModalVisible

----------------------------------------------------------------------------
(* groupMedia *)

WeekDays == 7         \* weekAgo.setDate(weekAgo.getDate() - 7)

\* new Date(createdAt) of a string that is no date: an Invalid Date, of time NaN
InvalidDate == [valid |-> FALSE, time |-> 0]

\* a >= b on two Dates: false as soon as one of them is invalid
DateGE(a, b) == a.valid /\ b.valid /\ a.time >= b.time

\* new Date(now.getFullYear(), now.getMonth(), now.getDate())
todayStart(now) == ValidDate(now - (now % DayMs))

\* todayStart with setDate(getDate() - 7)
weekAgo(now) == ValidDate(todayStart(now).time - WeekDays * DayMs)

\* a loop whose last branch tests created < weekAgo
GroupOfStrict(item, now) ==
  IF DateGE(item.createdAt, todayStart(now)) THEN "Today"
  ELSE IF DateGE(item.createdAt, weekAgo(now)) THEN "This week"
  ELSE IF item.createdAt.valid THEN "Earlier"
  ELSE "none"

\* a loop that tests created > todayStart and created > weekAgo
GroupOfAfter(item, now) ==
  IF DateGE(item.createdAt, ValidDate(todayStart(now).time + 1)) THEN "Today"
  ELSE IF DateGE(item.createdAt, ValidDate(weekAgo(now).time + 1)) THEN "This week"
  ELSE "Earlier"

\* the bucket the loop of groupMedia pushes item to
GroupOf(item, now) ==
  IF DateGE(item.createdAt, todayStart(now)) THEN "Today"
  ELSE IF DateGE(item.createdAt, weekAgo(now)) THEN "This week"
  ELSE "Earlier"

GroupKeys == <<"Today", "This week", "Earlier">>

\* buckets[key] after the loop
Bucket(items, now, key) == SelectSeq(items, LAMBDA item : GroupOf(item, now) = key)

\* a groupMedia that pushes every bucket, empty or not
groupMediaAllKeys(items, now) ==
  [k \in DOMAIN GroupKeys |->
     [group |-> GroupKeys[k], items |-> Bucket(items, now, GroupKeys[k])]]

groupMedia(items, now) ==
  SelectSeq([k \in DOMAIN GroupKeys |->
               [group |-> GroupKeys[k], items |-> Bucket(items, now, GroupKeys[k])]],
            LAMBDA g : g.items # <<>>)

\* the instants groupMedia is run at: the first and the last ms of GroupDay
NowValues == {GroupDay * DayMs, GroupDay * DayMs + DayMs - 1}

\* the createdAt values of the grouped items: the ms before and at the start of
\* the week, the ms before and at the start of the day, the next day, no date
CreatedDates ==
  {ValidDate(GroupDay * DayMs + d) :
     d \in {0 - WeekDays * DayMs - 1, 0 - WeekDays * DayMs, 0 - 1, 0, DayMs}}
  \cup {InvalidDate}

GroupIds == {"p", "q"}

GroupItems == {[id |-> i, createdAt |-> c] : i \in GroupIds, c \in CreatedDates}

----------------------------------------------------------------------------
(* Initial state *)

Init ==
  /\ media = initialMedia
  /\ filter = "all"
  /\ manualAlbums = <<>>
  /\ activeAlbum = NoAlbum
  /\ albumEditMode = FALSE
  /\ refreshing = FALSE
  /\ syncing = FALSE
  /\ scanningDevice = FALSE
  /\ renameModalVisible = FALSE
  /\ renameText = ""
  /\ selectMode = FALSE
  /\ selectedIds = {}
  /\ uploading = FALSE
  /\ clock = ClockStart
  /\ inFlight = <<>>
  /\ scanPc = "idle"
  /\ scanItems = <<>>
  /\ deleteAlert = NoAlert
  /\ grouped = <<>>
  /\ today = GroupDay * DayMs
  /\ groups = groupMedia(grouped, today)
  /\ people = initialPeople
  /\ selectedPerson = <<>>
  /\ editingName = ""
  /\ savingName = FALSE
  /\ saveTimers = <<>>

----------------------------------------------------------------------------
(* The clock *)

Tick ==
  /\ clock < ClockStart + MaxTicks
  /\ clock' = clock + 1
  /\ UNCHANGED <<groupVars, peopleVars, media, filter, manualAlbums, activeAlbum, albumEditMode, refreshing,
                 syncing, scanningDevice, renameModalVisible, renameText, selectMode,
                 selectedIds, uploading, inFlight, scanPc, scanItems, deleteAlert>>

----------------------------------------------------------------------------
(* Album store *)

\* a new album numbered from zero
NewAlbumFromZero(count, now) ==
  [id |-> "manual-" \o ToString(now),
   title |-> "Album " \o ToString(count),
   createdAt |-> now,
   mediaIds |-> <<>>,
   coverMediaId |-> NoCover]

\* the ManualAlbum handleCreateAlbum builds
NewAlbum(count, now) ==
  [id |-> "manual-" \o ToString(now),
   title |-> "Album " \o ToString(count + 1),
   createdAt |-> now,
   mediaIds |-> <<>>,
   coverMediaId |-> NoCover]

\* a toggle that adds and never removes
ToggleMembershipAddOnly(prev, albumId, mediaId) ==
  [i \in DOMAIN prev |->
     IF prev[i].id # albumId THEN prev[i]
     ELSE [prev[i] EXCEPT !.mediaIds = SetAdd(@, mediaId)]]

\* the updater of toggleItemInActiveManualAlbum
ToggleMembership(prev, albumId, mediaId) ==
  [i \in DOMAIN prev |->
     IF prev[i].id # albumId THEN prev[i]
     ELSE [prev[i] EXCEPT !.mediaIds =
             IF mediaId \in Range(@) THEN SetDelete(@, mediaId) ELSE SetAdd(@, mediaId)]]

\* a setCover that forgets the membership
SetCoverOnly(prev, albumId, mediaId) ==
  [i \in DOMAIN prev |->
     IF prev[i].id # albumId THEN prev[i] ELSE [prev[i] EXCEPT !.coverMediaId = mediaId]]

\* the updater of handleSetCoverForActiveAlbum
SetCover(prev, albumId, mediaId) ==
  [i \in DOMAIN prev |->
     IF prev[i].id # albumId THEN prev[i]
     ELSE [prev[i] EXCEPT !.mediaIds = SetAdd(@, mediaId), !.coverMediaId = mediaId]]

\* the Delete updater with its filter test inverted
RemoveAlbumInverted(prev, albumId) == SelectSeq(prev, LAMBDA a : a.id = albumId)

\* the updater of the alert's Delete button
RemoveAlbum(prev, albumId) == SelectSeq(prev, LAMBDA a : a.id # albumId)

\* handleCreateAlbum without its setActiveAlbum and setAlbumEditMode calls
createAlbumKeepsActive(limit) ==
  /\ ScreenFree
  /\ Len(manualAlbums) < limit
  /\ manualAlbums' = Append(manualAlbums, NewAlbum(Len(manualAlbums), clock))
  /\ selectMode' = FALSE
  /\ clearSelection
  /\ UNCHANGED <<groupVars, peopleVars, mediaVars, renameVars, filter, uploading, clock, deleteAlert,
                 activeAlbum, albumEditMode>>

\* handleCreateAlbum, while fewer than limit albums exist
createAlbum(limit) ==
  /\ ScreenFree
  /\ Len(manualAlbums) < limit
  /\ LET newAlbum == NewAlbum(Len(manualAlbums), clock)
     IN /\ manualAlbums' = Append(manualAlbums, newAlbum)
        /\ activeAlbum' = [kind |-> "manual", id |-> newAlbum.id]
  /\ albumEditMode' = TRUE
  /\ selectMode' = FALSE
  /\ clearSelection
  /\ UNCHANGED <<groupVars, peopleVars, mediaVars, renameVars, filter, uploading, clock, deleteAlert>>

\* the "+ New album" button
handleCreateAlbum == createAlbum(MaxAlbums)

\* the same button in the specifications that also edit album membership
handleCreateEditedAlbum == createAlbum(MaxEdited)

handlePressAlbum ==
  /\ ScreenFree
  /\ \E album \in AlbumCards :
       activeAlbum' = IF album.kind = "smart"
                      THEN IF album.id = "all" THEN NoAlbum
                           ELSE [kind |-> "smart", id |-> album.id]
                      ELSE [kind |-> "manual", id |-> album.id]
  /\ albumEditMode' = FALSE
  /\ selectMode' = FALSE
  /\ clearSelection
  /\ UNCHANGED <<groupVars, peopleVars, mediaVars, renameVars, filter, manualAlbums, uploading, clock,
                 deleteAlert>>

\* a toggle that leaves select mode and keeps the selection
toggleAlbumEditModeKeepsSelection ==
  /\ ScreenFree
  /\ activeManualAlbum # 0
  /\ albumEditMode' = ~albumEditMode
  /\ IF ~albumEditMode
     THEN selectMode' = FALSE /\ UNCHANGED selectedIds
     ELSE UNCHANGED <<selectMode, selectedIds>>
  /\ UNCHANGED <<groupVars, peopleVars, mediaVars, renameVars, filter, manualAlbums, activeAlbum,
                 uploading, clock, deleteAlert>>

toggleAlbumEditMode ==
  /\ ScreenFree
  /\ activeManualAlbum # 0
  /\ albumEditMode' = ~albumEditMode
  /\ IF ~albumEditMode
     THEN selectMode' = FALSE /\ clearSelection
     ELSE UNCHANGED <<selectMode, selectedIds>>
  /\ UNCHANGED <<groupVars, peopleVars, mediaVars, renameVars, filter, manualAlbums, activeAlbum, uploading,
                 clock, deleteAlert>>

toggleItemInActiveManualAlbum(mediaId) ==
  IF activeManualAlbum = 0 THEN UNCHANGED manualAlbums
  ELSE manualAlbums' =
         ToggleMembership(manualAlbums, manualAlbums[activeManualAlbum].id, mediaId)

toggleSelectItem(mediaId) ==
  selectedIds' = IF mediaId \in selectedIds
                 THEN selectedIds \ {mediaId} ELSE selectedIds \cup {mediaId}

\* openItem(item), reached by a tap on the grid item mediaId
onPress(mediaId) ==
  /\ ScreenFree
  /\ IF albumEditMode /\ activeManualAlbum # 0
     THEN toggleItemInActiveManualAlbum(mediaId) /\ UNCHANGED selectedIds
     ELSE IF selectMode
          THEN toggleSelectItem(mediaId) /\ UNCHANGED manualAlbums
          ELSE UNCHANGED <<manualAlbums, selectedIds>>   \* opens the viewer
  /\ UNCHANGED <<groupVars, peopleVars, mediaVars, renameVars, filter, activeAlbum, albumEditMode, selectMode,
                 uploading, clock, deleteAlert>>

\* a tap on a grid item
openItem == \E mediaId \in Tappable : onPress(mediaId)

\* a tap on one of the first MaxFirst grid items
openFirstItem == \E mediaId \in TappableUpTo(MaxFirst) : onPress(mediaId)

\* handleSetCoverForActiveAlbum(mediaId), reached by a long press in edit mode
onLongPress(mediaId) ==
  /\ ScreenFree
  /\ albumEditMode /\ activeManualAlbum # 0
  /\ manualAlbums' = SetCover(manualAlbums, manualAlbums[activeManualAlbum].id, mediaId)
  /\ UNCHANGED <<groupVars, peopleVars, mediaVars, renameVars, selectVars, filter, activeAlbum, albumEditMode,
                 clock, deleteAlert>>

\* a long press on a grid item
handleSetCoverForActiveAlbum == \E mediaId \in Tappable : onLongPress(mediaId)

handleDeleteAlbum ==
  /\ ScreenFree
  /\ activeManualAlbum # 0
  /\ deleteAlert' = manualAlbums[activeManualAlbum].id
  /\ UNCHANGED <<groupVars, peopleVars, mediaVars, renameVars, selectVars, filter, manualAlbums, activeAlbum,
                 albumEditMode, clock>>

\* the alert's Delete button
\* a Delete button that removes the album and keeps it selected
DeleteConfirmKeepsActive ==
  /\ deleteAlert # NoAlert
  /\ manualAlbums' = RemoveAlbum(manualAlbums, deleteAlert)
  /\ deleteAlert' = NoAlert
  /\ UNCHANGED <<groupVars, peopleVars, mediaVars, renameVars, selectVars, filter, clock,
                 activeAlbum, albumEditMode>>

DeleteConfirm ==
  /\ deleteAlert # NoAlert
  /\ manualAlbums' = RemoveAlbum(manualAlbums, deleteAlert)
  /\ activeAlbum' = NoAlbum
  /\ albumEditMode' = FALSE
  /\ deleteAlert' = NoAlert
  /\ UNCHANGED <<groupVars, peopleVars, mediaVars, renameVars, selectVars, filter, clock>>

\* the alert's Cancel button
DeleteCancel ==
  /\ deleteAlert # NoAlert
  /\ deleteAlert' = NoAlert
  /\ UNCHANGED <<groupVars, peopleVars, mediaVars, renameVars, selectVars, filter, manualAlbums, activeAlbum,
                 albumEditMode, clock>>

setFilter ==
  /\ ScreenFree
  /\ \E key \in {"all", "photos", "videos"} : filter' = key
  /\ UNCHANGED <<groupVars, peopleVars, mediaVars, albumVars, renameVars, selectVars, clock>>

----------------------------------------------------------------------------
(* Select-for-upload mode and the mock upload *)

\* a select toggle that leaves album edit mode on
handleToggleSelectModeKeepsEdit ==
  /\ ScreenFree
  /\ IF selectMode
     THEN selectMode' = FALSE /\ clearSelection
     ELSE selectMode' = TRUE /\ UNCHANGED selectedIds
  /\ UNCHANGED <<groupVars, peopleVars, mediaVars, renameVars, filter, manualAlbums, activeAlbum, uploading,
                 clock, deleteAlert, albumEditMode>>

handleToggleSelectMode ==
  /\ ScreenFree
  /\ IF selectMode
     THEN selectMode' = FALSE /\ clearSelection /\ UNCHANGED albumEditMode
     ELSE albumEditMode' = FALSE /\ selectMode' = TRUE /\ UNCHANGED selectedIds
  /\ UNCHANGED <<groupVars, peopleVars, mediaVars, renameVars, filter, manualAlbums, activeAlbum, uploading,
                 clock, deleteAlert>>

\* the Upload button: shown in select mode, disabled while uploading or with
\* nothing selected
handleFakeUpload ==
  /\ ScreenFree
  /\ selectMode /\ ~uploading /\ selectedIds # {}
  /\ uploading' = TRUE
  /\ UNCHANGED <<groupVars, peopleVars, mediaVars, albumVars, renameVars, filter, selectMode, selectedIds,
                 clock>>

\* a finally block that only clears the uploading flag
FakeUploadDoneKeepsMode ==
  /\ uploading
  /\ uploading' = FALSE
  /\ UNCHANGED <<groupVars, peopleVars, mediaVars, albumVars, renameVars, filter, clock, selectMode,
                 selectedIds>>

\* the upload's delay elapses: the finally block
FakeUploadDone ==
  /\ uploading
  /\ uploading' = FALSE
  /\ selectMode' = FALSE
  /\ clearSelection
  /\ UNCHANGED <<groupVars, peopleVars, mediaVars, albumVars, renameVars, filter, clock>>

----------------------------------------------------------------------------
(* Rename modal *)

RenameInputs == {"", "  ", "Trip", " Trip "}

\* a trim that returns its text as it is
TrimNothing(text) == text

\* String.prototype.trim on the texts the model types
Trim(text) ==
  CASE text = "  " -> ""
    [] text = " Trip " -> "Trip"
    [] text = " Ann " -> "Ann"
    [] OTHER -> text

\* the updater of handleConfirmRenameAlbum
RenameAlbum(prev, albumId, title) ==
  [i \in DOMAIN prev |-> IF prev[i].id = albumId THEN [prev[i] EXCEPT !.title = title]
                                                ELSE prev[i]]

handleStartRenameAlbum ==
  /\ ScreenFree
  /\ activeManualAlbum # 0
  /\ renameText' = manualAlbums[activeManualAlbum].title
  /\ renameModalVisible' = TRUE
  /\ UNCHANGED <<groupVars, peopleVars, mediaVars, albumVars, selectVars, filter, clock>>

\* onChangeText of the modal's input
setRenameText ==
  /\ renameModalVisible
  /\ \E text \in RenameInputs : renameText' = text
  /\ UNCHANGED <<groupVars, peopleVars, mediaVars, albumVars, selectVars, filter, clock, renameModalVisible>>

handleConfirmRenameAlbum ==
  /\ renameModalVisible
  /\ IF activeManualAlbum = 0 \/ Trim(renameText) = ""
     THEN UNCHANGED manualAlbums
     ELSE manualAlbums' = RenameAlbum(manualAlbums, manualAlbums[activeManualAlbum].id,
                                      Trim(renameText))
  /\ renameModalVisible' = FALSE
  /\ UNCHANGED <<groupVars, peopleVars, mediaVars, selectVars, filter, clock, renameText, activeAlbum,
                 albumEditMode, deleteAlert>>

\* the modal's Cancel button and onRequestClose
CancelRename ==
  /\ renameModalVisible
  /\ renameModalVisible' = FALSE
  /\ UNCHANGED <<groupVars, peopleVars, mediaVars, albumVars, selectVars, filter, clock, renameText>>

----------------------------------------------------------------------------
(* Pull-to-refresh and Sync *)

\* the record handleRefresh inserts
RefreshItem(now, type) ==
  MediaItem(ToString(now), ValidDate(now), type, "mock", 400, 400)

\* a refresh that prepends to the list the handler saw when it was created
InsertRefreshedStale(prev, newItem) == <<newItem>> \o initialMedia

\* setMedia((prev) => [newItem, ...prev])
InsertRefreshed(prev, newItem) == <<newItem>> \o prev

RoomForRefresh == Len(media) + Len(inFlight) < MaxMedia /\ Len(inFlight) < MaxInFlight

\* RefreshControl's onRefresh: handleRefresh up to its await
handleRefresh ==
  /\ ScreenFree
  /\ ~refreshing
  /\ Len(mediaForTimeline) > 0           \* the ScrollView is rendered
  /\ RoomForRefresh
  /\ refreshing' = TRUE
  /\ inFlight' = Append(inFlight, [by |-> "pull", at |-> clock])
  /\ UNCHANGED <<groupVars, peopleVars, albumVars, renameVars, selectVars, filter, clock, media, syncing,
                 scanningDevice, scanPc, scanItems>>

\* the Sync button: handleSyncClick up to the await inside handleRefresh
handleSyncClick ==
  /\ ScreenFree
  /\ ~syncing
  /\ RoomForRefresh
  /\ syncing' = TRUE
  /\ refreshing' = TRUE
  /\ inFlight' = Append(inFlight, [by |-> "sync", at |-> clock])
  /\ UNCHANGED <<groupVars, peopleVars, albumVars, renameVars, selectVars, filter, clock, media,
                 scanningDevice, scanPc, scanItems>>

\* the 700 ms timer of the oldest handleRefresh fires, at a later clock value; a
\* timer that is overdue fires late, so two may fire at the same clock value
RefreshDone ==
  /\ inFlight # <<>>
  /\ clock > Head(inFlight).at
  /\ \E type \in {"photo", "video"} :
       media' = InsertRefreshed(media, RefreshItem(clock, type))
  /\ refreshing' = FALSE
  /\ syncing' = IF Head(inFlight).by = "sync" THEN FALSE ELSE syncing
  /\ inFlight' = Tail(inFlight)
  /\ UNCHANGED <<groupVars, peopleVars, albumVars, renameVars, selectVars, filter, clock, scanningDevice,
                 scanPc, scanItems>>

----------------------------------------------------------------------------
(* Device scan *)

\* the Scan device button: handleScanDevice up to requestPermissionsAsync
handleScanDevice ==
  /\ ScreenFree
  /\ ~scanningDevice
  /\ scanPc = "idle"
  /\ Len(media) < MaxMedia
  /\ scanningDevice' = TRUE
  /\ scanPc' = "permission"
  /\ UNCHANGED <<groupVars, peopleVars, albumVars, renameVars, selectVars, filter, clock, media, refreshing,
                 syncing, inFlight, scanItems>>

\* requestPermissionsAsync resolves with "granted"
ScanPermissionGranted ==
  /\ scanPc = "permission"
  /\ scanPc' = "assets"
  /\ UNCHANGED <<groupVars, peopleVars, albumVars, renameVars, selectVars, filter, clock, media, refreshing,
                 syncing, inFlight, scanItems, scanningDevice>>

\* a refusal that also empties the collection
ScanPermissionDeniedEmpties ==
  /\ scanPc = "permission"
  /\ scanPc' = "idle"
  /\ scanningDevice' = FALSE
  /\ media' = <<>>
  /\ UNCHANGED <<groupVars, peopleVars, albumVars, renameVars, selectVars, filter, clock, refreshing,
                 syncing, inFlight, scanItems>>

\* requestPermissionsAsync resolves with another status: alert, return, finally
ScanPermissionDenied ==
  /\ scanPc = "permission"
  /\ scanPc' = "idle"
  /\ scanningDevice' = FALSE
  /\ UNCHANGED <<groupVars, peopleVars, albumVars, renameVars, selectVars, filter, clock, media, refreshing,
                 syncing, inFlight, scanItems>>

\* getAssetsAsync resolves: the records to build, one per asset
ScanAssetsListed ==
  /\ scanPc = "assets"
  /\ \E items \in ScanBatches : scanItems' = items
  /\ scanPc' = "info"
  /\ UNCHANGED <<groupVars, peopleVars, albumVars, renameVars, selectVars, filter, clock, media, refreshing,
                 syncing, inFlight, scanningDevice>>

\* Promise.all of getAssetInfoAsync resolves: the merge, then finally
ScanMerge ==
  /\ scanPc = "info"
  /\ media' = mergeScan(media, scanItems)
  /\ scanItems' = <<>>
  /\ scanPc' = "idle"
  /\ scanningDevice' = FALSE
  /\ UNCHANGED <<groupVars, peopleVars, albumVars, renameVars, selectVars, filter, clock, refreshing, syncing,
                 inFlight>>

\* handleScanDevice from the tap to its merge, when nothing else runs between
\* its awaits, while the scans have stored no more than MaxListed records
ScanThrough ==
  /\ ScreenFree
  /\ ~scanningDevice
  /\ scanPc = "idle"
  /\ Len(media) < Len(initialMedia) + MaxListed
  /\ \E items \in ScanBatchesUpTo(MaxListed) :
       /\ Len(mergeScan(media, items)) <= Len(initialMedia) + MaxListed
       /\ media' = mergeScan(media, items)
  /\ UNCHANGED <<groupVars, peopleVars, albumVars, renameVars, selectVars, filter, clock, refreshing,
                 syncing, inFlight, scanPc, scanItems, scanningDevice>>

\* a rejection handled without the finally block
ScanThrowsKeepsFlag ==
  /\ scanPc \in {"permission", "assets", "info"}
  /\ scanItems' = <<>>
  /\ scanPc' = "idle"
  /\ UNCHANGED <<groupVars, peopleVars, albumVars, renameVars, selectVars, filter, clock, media, refreshing,
                 syncing, inFlight, scanningDevice>>

\* an await of the scan rejects: catch, then finally
ScanThrows ==
  /\ scanPc \in {"permission", "assets", "info"}
  /\ scanItems' = <<>>
  /\ scanPc' = "idle"
  /\ scanningDevice' = FALSE
  /\ UNCHANGED <<groupVars, peopleVars, albumVars, renameVars, selectVars, filter, clock, media, refreshing,
                 syncing, inFlight>>

----------------------------------------------------------------------------
(* The timeline's grouping *)

\* a render whose list has one more item: groups = groupMedia(mediaForTimeline)
RenderAppended ==
  /\ Len(grouped) < MaxGroupLen
  /\ \E item \in GroupItems : grouped' = Append(grouped, item)
  /\ groups' = groupMedia(grouped', today)
  /\ UNCHANGED <<mediaVars, albumVars, renameVars, selectVars, peopleVars, filter, clock,
                 today>>

\* a render of the same list at another instant
RenderAt ==
  /\ \E now \in NowValues \ {today} : today' = now
  /\ groups' = groupMedia(grouped, today')
  /\ UNCHANGED <<mediaVars, albumVars, renameVars, selectVars, peopleVars, filter, clock,
                 grouped>>

----------------------------------------------------------------------------
(* The People screen (src/app/(tabs)/people.tsx) *)

\* the texts typed into the name field of the details modal
NameInputs == {"", " Ann ", "Bo"}

\* a tap on a person card; the cards are under the modal while it is shown
openPerson ==
  /\ selectedPerson = <<>>
  /\ \E i \in DOMAIN people :
       /\ i <= MaxPersons
       /\ selectedPerson' = <<people[i]>>
       /\ editingName' = people[i].name
  /\ UNCHANGED <<groupVars, mediaVars, albumVars, renameVars, selectVars, filter, clock,
                 people, savingName, saveTimers>>

\* Close, the backdrop, or the back button of the shown modal
closePerson ==
  /\ selectedPerson # <<>>
  /\ selectedPerson' = <<>>
  /\ editingName' = ""
  /\ savingName' = FALSE
  /\ UNCHANGED <<groupVars, mediaVars, albumVars, renameVars, selectVars, filter, clock,
                 people, saveTimers>>

\* typing into the name field
setEditingName ==
  /\ selectedPerson # <<>>
  /\ \E text \in NameInputs : editingName' = text
  /\ UNCHANGED <<groupVars, mediaVars, albumVars, renameVars, selectVars, filter, clock,
                 people, selectedPerson, savingName, saveTimers>>

\* "Save name", disabled while the name is blank or a save is shown as running
handleSaveName ==
  /\ selectedPerson # <<>>
  /\ Trim(editingName) # ""
  /\ ~savingName
  /\ Len(saveTimers) < MaxSaves
  /\ savingName' = TRUE
  /\ saveTimers' = Append(saveTimers, [id |-> selectedPerson[1].id,
                                       newName |-> Trim(editingName)])
  /\ UNCHANGED <<groupVars, mediaVars, albumVars, renameVars, selectVars, filter, clock,
                 people, selectedPerson, editingName>>

\* the updater of setPeople in the timer's callback
SavePeople(prev, id, newName) ==
  [i \in DOMAIN prev |-> IF prev[i].id = id
                           THEN [prev[i] EXCEPT !.name = newName, !.isKnown = TRUE]
                           ELSE prev[i]]

\* the updater of setSelectedPerson in the timer's callback
SaveSelected(prev, newName) ==
  IF prev # <<>> THEN <<[prev[1] EXCEPT !.name = newName, !.isKnown = TRUE]>> ELSE prev

\* the oldest 400 ms timer fires
SaveNameDone ==
  /\ saveTimers # <<>>
  /\ people' = SavePeople(people, Head(saveTimers).id, Head(saveTimers).newName)
  /\ selectedPerson' = SaveSelected(selectedPerson, Head(saveTimers).newName)
  /\ savingName' = FALSE
  /\ saveTimers' = Tail(saveTimers)
  /\ UNCHANGED <<groupVars, mediaVars, albumVars, renameVars, selectVars, filter, clock,
                 editingName>>

----------------------------------------------------------------------------
(* Specifications *)

\* The whole screen.  The specifications after it each take the handlers that
\* write, or whose guards read, the state one group of properties is about: the
\* handlers left out of one leave its variables unchanged.
Next ==
  \/ Tick
  \/ handleCreateAlbum \/ handlePressAlbum \/ toggleAlbumEditMode
  \/ openItem \/ handleSetCoverForActiveAlbum
  \/ handleDeleteAlbum \/ DeleteConfirm \/ DeleteCancel
  \/ setFilter
  \/ handleToggleSelectMode \/ handleFakeUpload \/ FakeUploadDone
  \/ handleStartRenameAlbum \/ setRenameText \/ handleConfirmRenameAlbum \/ CancelRename
  \/ handleRefresh \/ handleSyncClick \/ RefreshDone
  \/ handleScanDevice \/ ScanPermissionGranted \/ ScanPermissionDenied
  \/ ScanAssetsListed \/ ScanMerge \/ ScanThrows
  \/ openPerson \/ closePerson \/ setEditingName \/ handleSaveName \/ SaveNameDone

Spec == Init /\ [][Next]_vars

\* the album list: create, select, edit mode, select mode, delete
NextAlbums ==
  \/ Tick
  \/ handleCreateAlbum \/ handlePressAlbum \/ toggleAlbumEditMode
  \/ handleDeleteAlbum \/ DeleteConfirm \/ DeleteCancel
  \/ setFilter \/ handleToggleSelectMode

SpecAlbums == Init /\ [][NextAlbums]_vars

\* the album store: the album list with membership and cover
NextStore ==
  \/ Tick
  \/ handleCreateEditedAlbum \/ handlePressAlbum \/ toggleAlbumEditMode
  \/ openItem \/ handleSetCoverForActiveAlbum
  \/ handleDeleteAlbum \/ DeleteConfirm \/ DeleteCancel

SpecStore == Init /\ [][NextStore]_vars

\* edit mode, select mode and the upload
NextModes ==
  \/ Tick
  \/ handleCreateEditedAlbum \/ handlePressAlbum \/ toggleAlbumEditMode
  \/ openItem
  \/ handleDeleteAlbum \/ DeleteConfirm \/ DeleteCancel
  \/ handleToggleSelectMode \/ handleFakeUpload \/ FakeUploadDone

SpecModes == Init /\ [][NextModes]_vars

\* the media collection: refresh, sync and device scan
NextSync ==
  \/ Tick
  \/ handleRefresh \/ handleSyncClick \/ RefreshDone
  \/ handleScanDevice \/ ScanPermissionGranted \/ ScanPermissionDenied
  \/ ScanAssetsListed \/ ScanMerge \/ ScanThrows

SpecSync == Init /\ [][NextSync]_vars

\* renaming an album that has members and a cover
NextRename ==
  \/ Tick
  \/ handleCreateEditedAlbum \/ openItem \/ handleSetCoverForActiveAlbum
  \/ handleStartRenameAlbum \/ setRenameText \/ handleConfirmRenameAlbum \/ CancelRename

SpecRename == Init /\ [][NextRename]_vars

\* groupMedia on every list of up to MaxGroupLen items
NextGroup == RenderAppended \/ RenderAt

SpecGroup == Init /\ [][NextGroup]_vars

\* what the timeline and the album row show: albums with members, edit mode,
\* the type filter and whole device scans
NextTimeline ==
  \/ handleCreateEditedAlbum \/ handlePressAlbum \/ toggleAlbumEditMode
  \/ openFirstItem \/ setFilter
  \/ ScanThrough

SpecTimeline == Init /\ [][NextTimeline]_vars

\* membership, cover and rename with two albums in the list
NextFrame ==
  \/ Tick
  \/ handleCreateAlbum \/ openItem \/ handleSetCoverForActiveAlbum
  \/ handleStartRenameAlbum \/ setRenameText \/ handleConfirmRenameAlbum \/ CancelRename

SpecFrame == Init /\ [][NextFrame]_vars

\* an await of the scan in flight settles
ScanSettles ==
  \/ ScanPermissionGranted \/ ScanPermissionDenied
  \/ ScanAssetsListed \/ ScanMerge \/ ScanThrows

\* refresh and scan, where every await of a started scan settles
SpecScan == Init /\ [][NextSync]_vars /\ WF_vars(ScanSettles)

\* the modes and the upload, where the timer of a started upload fires
SpecUpload == Init /\ [][NextModes]_vars /\ WF_vars(FakeUploadDone)

\* the People screen
NextPeople ==
  \/ openPerson \/ closePerson \/ setEditingName \/ handleSaveName \/ SaveNameDone

SpecPeople == Init /\ [][NextPeople]_vars

----------------------------------------------------------------------------
(* Properties *)

\* C1: every album whose coverMediaId is set has that id among its mediaIds
CoverInvariant ==
  \A i \in DOMAIN manualAlbums :
     manualAlbums[i].coverMediaId # NoCover
       => manualAlbums[i].coverMediaId \in Range(manualAlbums[i].mediaIds)

\* C2: merging a scanned batch a second time changes nothing, for every
\* reachable collection and every batch a scan has built
IdempotentMerge ==
  mergeScan(mergeScan(media, scanItems), scanItems) = mergeScan(media, scanItems)

\* a re-scan of assets already merged is about to be merged again
RescanPending ==
  /\ scanPc = "info"
  /\ scanItems # <<>>
  /\ Ids(scanItems) \subseteq Ids(media)

\* what the merge of scanItems into media may change
AppendOnlyEffect ==
  LET n == Len(media)
      fresh == {j \in DOMAIN scanItems : scanItems[j].id \notin Ids(media)}
  IN /\ Len(media') = n + Cardinality(fresh)
     /\ SubSeq(media', 1, n) = media
     /\ \A k \in (n + 1)..Len(media') :
          /\ media'[k].id \notin Ids(media)
          /\ \E j \in fresh : media'[k] = scanItems[j]
     /\ \A j \in fresh : \E k \in (n + 1)..Len(media') : media'[k] = scanItems[j]

\* C3: the scan merge keeps every stored record, unchanged and in order, drops the
\* scanned records whose id is stored and appends those whose id is new
ScanMergeAppendOnly == [][ScanMerge => AppendOnlyEffect]_vars

\* after an earlier merge, a batch with a stored id and a new id is about to merge
MixedBatchPending ==
  /\ scanPc = "info"
  /\ \E i \in DOMAIN media : media[i].source = "device"
  /\ \E j \in DOMAIN scanItems : scanItems[j].id \in Ids(media)
  /\ \E j \in DOMAIN scanItems : scanItems[j].id \notin Ids(media)

\* C4: no two records of the media collection have the same id
MediaIdsUnique == \A i, j \in DOMAIN media : i # j => media[i].id # media[j].id

\* C5: confirming the deletion leaves the media collection as it was and removes
\* the active album only, every other album staying as it was
DeleteNonDestructive ==
  [][DeleteConfirm =>
       /\ media' = media
       /\ \E k \in DOMAIN manualAlbums :
            /\ manualAlbums[k].id = deleteAlert
            /\ manualAlbums' = [i \in 1..(Len(manualAlbums) - 1) |->
                                  IF i < k THEN manualAlbums[i] ELSE manualAlbums[i + 1]]
    ]_vars

\* what setCover(mediaId) makes of the albums it is applied to
CoverEffect(mediaId) ==
  \A i \in DOMAIN manualAlbums :
     manualAlbums[i].id = manualAlbums[activeManualAlbum].id =>
       /\ manualAlbums'[i].coverMediaId = mediaId
       /\ mediaId \in Range(manualAlbums'[i].mediaIds)
       /\ SelectSeq(manualAlbums'[i].mediaIds, LAMBDA x : x # mediaId)
            = SelectSeq(manualAlbums[i].mediaIds, LAMBDA x : x # mediaId)

\* C6: setCover makes mediaId the cover and a member, whether or not it was
\* one, and leaves the other members as they were
SetCoverAddsMember ==
  [][\A mediaId \in Tappable : onLongPress(mediaId) => CoverEffect(mediaId)]_vars

\* an album whose cover is one of several members
CoverAmongMembers ==
  \E i \in DOMAIN manualAlbums :
     /\ manualAlbums[i].coverMediaId # NoCover
     /\ manualAlbums[i].coverMediaId \in Range(manualAlbums[i].mediaIds)
     /\ Len(manualAlbums[i].mediaIds) > 1
     /\ manualAlbums[i].mediaIds[1] # manualAlbums[i].coverMediaId

\* the N of a default title
TitleNumber(title) ==
  CHOOSE n \in 0..(MaxAlbums + 1) : title = "Album " \o ToString(n)

\* C7: the N of a newly created album is greater than the N of every album
\* created before it, so no two albums receive the same default title
DefaultTitlesIncrease ==
  [][handleCreateAlbum =>
       \A i \in DOMAIN manualAlbums :
          TitleNumber(manualAlbums'[Len(manualAlbums')].title)
            > TitleNumber(manualAlbums[i].title)
    ]_vars

FreshAlbum(a, title) ==
  a.title = title /\ a.mediaIds = <<>> /\ a.coverMediaId = NoCover

\* C8: starting with no albums, createAlbum twice in a row yields "Album 1" then
\* "Album 2", each with no members and no cover
CreateTwice ==
  [][handleCreateAlbum =>
       /\ manualAlbums = <<>> =>
            /\ Len(manualAlbums') = 1
            /\ FreshAlbum(manualAlbums'[1], "Album 1")
       /\ (Len(manualAlbums) = 1 /\ FreshAlbum(manualAlbums[1], "Album 1")) =>
            /\ Len(manualAlbums') = 2
            /\ FreshAlbum(manualAlbums'[1], "Album 1")
            /\ FreshAlbum(manualAlbums'[2], "Album 2")
    ]_vars

\* two fresh albums, the second just created
TwoFreshAlbums ==
  /\ Len(manualAlbums) = 2
  /\ FreshAlbum(manualAlbums[1], "Album 1")
  /\ FreshAlbum(manualAlbums[2], "Album 2")
  /\ activeAlbum = [kind |-> "manual", id |-> manualAlbums[2].id]
  /\ albumEditMode

\* C9: no two manual albums share an id
AlbumIdsUnique ==
  \A i, j \in DOMAIN manualAlbums : i # j => manualAlbums[i].id # manualAlbums[j].id

\* C10: album edit mode and select mode are never both on
ModesExclusive == ~(albumEditMode /\ selectMode)

\* select mode on, with items selected, while a manual album is active
SelectingInManualAlbum ==
  /\ selectMode
  /\ selectedIds # {}
  /\ activeManualAlbum # 0

\* C11: a step of handleCreateAlbum appends one album and leaves that album's id
\* as the active manual selection with album edit mode on, whatever was
\* selected and whichever mode was on before
CreateActivates ==
  [][handleCreateAlbum =>
       /\ Len(manualAlbums') = Len(manualAlbums) + 1
       /\ activeAlbum' = [kind |-> "manual",
                          id |-> manualAlbums'[Len(manualAlbums')].id]
       /\ albumEditMode'
       /\ ~selectMode'
    ]_vars

\* a second album was created and is the one selected for editing
SecondAlbumActive ==
  /\ Len(manualAlbums) = 2
  /\ manualAlbums[1].id # manualAlbums[2].id
  /\ activeAlbum = [kind |-> "manual", id |-> manualAlbums[2].id]
  /\ albumEditMode
  /\ FreshAlbum(manualAlbums[2], "Album 2")

\* C12: confirming the deletion of the active album removes it from the album
\* list, where its id appears no more, resets the selection to none ("All") and
\* leaves album edit mode off
DeleteResets ==
  [][DeleteConfirm =>
       /\ activeAlbum = [kind |-> "manual", id |-> deleteAlert]
       /\ deleteAlert \in Ids(manualAlbums)
       /\ deleteAlert \notin Ids(manualAlbums')
       /\ Len(manualAlbums') < Len(manualAlbums)
       /\ activeAlbum' = NoAlbum
       /\ ~albumEditMode'
    ]_vars

\* the Delete alert is open on the active album, one of two, in edit mode
DeletePendingInEditMode ==
  /\ deleteAlert # NoAlert
  /\ activeAlbum = [kind |-> "manual", id |-> deleteAlert]
  /\ albumEditMode
  /\ Len(manualAlbums) = 2

\* what a tap on mediaId in album edit mode changes in the album list
FlipEffect(mediaId) ==
  LET id == manualAlbums[activeManualAlbum].id
  IN /\ Len(manualAlbums') = Len(manualAlbums)
     /\ \A i \in DOMAIN manualAlbums :
          LET old == manualAlbums[i]
              new == manualAlbums'[i]
          IN IF old.id # id THEN new = old
             ELSE /\ (mediaId \in Range(new.mediaIds)) = (mediaId \notin Range(old.mediaIds))
                  /\ Range(new.mediaIds) \ {mediaId} = Range(old.mediaIds) \ {mediaId}
                  /\ SelectSeq(new.mediaIds, LAMBDA m : m # mediaId)
                       = SelectSeq(old.mediaIds, LAMBDA m : m # mediaId)
                  /\ [new EXCEPT !.mediaIds = <<>>] = [old EXCEPT !.mediaIds = <<>>]

\* the ids an album can have
AlbumIds == {"manual-" \o ToString(t) : t \in ClockStart..(ClockStart + MaxTicks)}

\* C13: a tap in album edit mode flips the presence of the tapped id in the
\* active album's mediaIds and touches no other member; the same toggle applied
\* once more restores every album's members; for an album id that is not in the
\* list the toggle leaves the list as it is
ToggleFlips ==
  [][\A mediaId \in Tappable :
       albumEditMode /\ activeManualAlbum # 0 /\ onPress(mediaId)
         => /\ FlipEffect(mediaId)
            /\ LET again == ToggleMembership(manualAlbums',
                                             manualAlbums[activeManualAlbum].id, mediaId)
               IN /\ Len(again) = Len(manualAlbums)
                  /\ \A i \in DOMAIN manualAlbums :
                       /\ Range(again[i].mediaIds) = Range(manualAlbums[i].mediaIds)
                       /\ [again[i] EXCEPT !.mediaIds = <<>>]
                            = [manualAlbums[i] EXCEPT !.mediaIds = <<>>]
            /\ \A id \in AlbumIds \ Ids(manualAlbums) :
                 ToggleMembership(manualAlbums, id, mediaId) = manualAlbums
    ]_vars

\* in edit mode the active album holds one of the tappable items and lacks another
ToggleBothWays ==
  /\ ScreenFree /\ albumEditMode /\ activeManualAlbum # 0
  /\ \E m \in Tappable : m \in Range(manualAlbums[activeManualAlbum].mediaIds)
  /\ \E m \in Tappable : m \notin Range(manualAlbums[activeManualAlbum].mediaIds)

Count(s, r) == Cardinality({i \in DOMAIN s : s[i] = r})

\* the items of all the groups gs, one bucket after the other
RECURSIVE Flatten(_)
Flatten(gs) == IF gs = <<>> THEN <<>> ELSE Head(gs).items \o Flatten(Tail(gs))

\* record r is shown under the heading key
InGroup(r, key) ==
  \E k \in DOMAIN groups : groups[k].group = key /\ r \in Range(groups[k].items)

\* C15: the groups returned by groupMedia are headed Today, This week or
\* Earlier, each heading at most once; every record of the input, a record
\* with an invalid createdAt included, is under exactly one heading, and as many
\* times as it is in the input; nothing else is in a group
BucketPartition ==
  /\ \A k \in DOMAIN groups : groups[k].group \in Range(GroupKeys)
  /\ \A j, k \in DOMAIN groups : j # k => groups[j].group # groups[k].group
  /\ Len(Flatten(groups)) = Len(grouped)
  /\ \A r \in GroupItems \cup Range(Flatten(groups)) :
       /\ Count(Flatten(groups), r) = Count(grouped, r)
       /\ Cardinality({key \in Range(GroupKeys) : InGroup(r, key)})
            = IF r \in Range(grouped) THEN 1 ELSE 0

\* a list with an invalid createdAt was grouped under all three headings
InvalidDateGrouped ==
  /\ \E i \in DOMAIN grouped : ~grouped[i].createdAt.valid
  /\ Len(groups) = 3

\* local midnight of the day of the reference instant
DayStart ==
  CHOOSE d \in {k * DayMs : k \in 0..(GroupDay + 1)} : d <= today /\ today < d + DayMs

\* C16: a record with a valid createdAt is under Today iff createdAt is at or
\* after local midnight of the reference day, under This week iff it is before
\* that and at or after midnight seven days earlier, under Earlier iff it is
\* before that
BucketBoundaries ==
  \A i \in DOMAIN grouped :
     grouped[i].createdAt.valid =>
       LET r == grouped[i]
           c == r.createdAt.time
           weekStart == DayStart - 7 * DayMs
       IN /\ InGroup(r, "Today") <=> c >= DayStart
          /\ InGroup(r, "This week") <=> (weekStart <= c /\ c < DayStart)
          /\ InGroup(r, "Earlier") <=> c < weekStart

\* records exactly at the start of the day, exactly at the start of the week and
\* one ms before it were grouped at the last ms of the day
BoundariesGrouped ==
  /\ today = DayStart + DayMs - 1
  /\ \E i \in DOMAIN grouped : grouped[i].createdAt = ValidDate(DayStart)
  /\ \E i \in DOMAIN grouped : grouped[i].createdAt = ValidDate(DayStart - 7 * DayMs)
  /\ \E i \in DOMAIN grouped : grouped[i].createdAt = ValidDate(DayStart - 7 * DayMs - 1)
  /\ Len(groups) = 3

\* the position of a heading in Today, This week, Earlier
KeyRank(key) == CASE key = "Today" -> 1 [] key = "This week" -> 2 [] key = "Earlier" -> 3

\* C17: no group returned by groupMedia is empty, the groups come in the order
\* Today, This week, Earlier for every order of the input, and the items of a
\* group are in the order they have in the input
BucketOrder ==
  /\ \A k \in DOMAIN groups : groups[k].items # <<>>
  /\ \A j, k \in DOMAIN groups : j < k => KeyRank(groups[j].group) < KeyRank(groups[k].group)
  /\ \A k \in DOMAIN groups :
       groups[k].items = SelectSeq(grouped, LAMBDA r : r \in Range(groups[k].items))

\* the input starts with a record of the second group, which holds two
\* different records, and goes on with the record of the first group
InputAgainstBucketOrder ==
  /\ Len(groups) = 2 /\ Len(grouped) = 3
  /\ grouped[1] \in Range(groups[2].items)
  /\ grouped[2] \in Range(groups[1].items)
  /\ groups[2].items = <<grouped[1], grouped[3]>>
  /\ grouped[1] # grouped[3]

\* the dedup key of a record: createdAt truncated to the second, width x height
DedupKey(m) == <<m.createdAt.time \div 1000, m.width * m.height>>

\* C18: no two records the timeline shows have the same dedup key
TimelineDeduplicated ==
  \A i, j \in DOMAIN mediaForTimeline :
     i # j => DedupKey(mediaForTimeline[i]) # DedupKey(mediaForTimeline[j])

\* C19: from every reachable collection, merging the scanned batch and then
\* inserting a refreshed record gives the same set of records as inserting the
\* record and then merging the batch
ScanSyncCommute ==
  \A type \in {"photo", "video"} :
     LET newItem == RefreshItem(clock, type)
     IN Range(InsertRefreshed(mergeScan(media, scanItems), newItem))
          = Range(mergeScan(InsertRefreshed(media, newItem), scanItems))

\* a scan holding a new asset and a refresh are both ready to complete
ScanAndSyncBothReady ==
  /\ scanPc = "info"
  /\ \E j \in DOMAIN scanItems : scanItems[j].id \notin Ids(media)
  /\ inFlight # <<>>
  /\ clock > Head(inFlight).at

\* C20: whatever overlaps, every step keeps each stored record as many times as
\* it was stored; the completion of a refresh or sync adds its one record to
\* them, and the completion of a scan adds every scanned record whose id was
\* not stored
NoLostData ==
  [][/\ \A r \in Range(media) : Count(media', r) >= Count(media, r)
     /\ RefreshDone =>
          /\ Len(media') = Len(media) + 1
          /\ \E type \in {"photo", "video"} :
               LET newItem == RefreshItem(clock, type)
               IN Count(media', newItem) = Count(media, newItem) + 1
     /\ ScanMerge =>
          \A j \in DOMAIN scanItems :
             scanItems[j].id \notin Ids(media) => scanItems[j] \in Range(media')
    ]_vars

\* one refresh has completed while another refresh or sync is outstanding and a
\* scan is about to merge a new asset
OverlapAfterFirstCompletion ==
  /\ \E i \in DOMAIN media : media[i].source = "mock" /\ media[i].id \notin Ids(initialMedia)
  /\ inFlight # <<>>
  /\ scanPc = "info"
  /\ \E j \in DOMAIN scanItems : scanItems[j].id \notin Ids(media)

\* C21: a scan whose permission request is refused ends there, having built no
\* record, and neither its start nor its refusal changes the media collection
DeniedScanKeepsMedia ==
  [][/\ handleScanDevice => media' = media
     /\ ScanPermissionDenied =>
          /\ media' = media
          /\ scanItems = <<>> /\ scanItems' = <<>>
          /\ scanPc' = "idle"
    ]_vars

\* after an earlier scan stored device records, a new scan waits for permission
RescanAwaitsPermission ==
  /\ scanPc = "permission"
  /\ \E i \in DOMAIN media : media[i].source = "device"

\* record m passes the media-kind filter
KindShown(m) ==
  \/ filter = "all"
  \/ filter = "photos" /\ m.type = "photo"
  \/ filter = "videos" /\ m.type = "video"

\* record m belongs to the active album
InActiveAlbum(m) ==
  \/ activeAlbum = NoAlbum
  \/ activeAlbum = [kind |-> "smart", id |-> "device"] /\ m.source = "device"
  \/ activeAlbum = [kind |-> "smart", id |-> "videos"] /\ m.type = "video"
  \/ /\ activeAlbum.kind = "manual"
     /\ \E i \in DOMAIN manualAlbums :
          /\ manualAlbums[i].id = activeAlbum.id
          /\ \A j \in 1..(i - 1) : manualAlbums[j].id # activeAlbum.id
          /\ m.id \in Range(manualAlbums[i].mediaIds)

\* C22: outside album edit mode the timeline is the list of the collection's
\* records, in collection order, that belong to the active album and pass the
\* media-kind filter; in album edit mode it is the list of the records that
\* pass the media-kind filter
TimelineScoped ==
  mediaForTimeline =
    SelectSeq(media, LAMBDA m : KindShown(m) /\ (albumEditMode \/ InActiveAlbum(m)))

\* a manual album with a photo and a video is shown under the Videos filter
AlbumShownFiltered ==
  /\ activeManualAlbum # 0 /\ ~albumEditMode
  /\ filter = "videos"
  /\ Len(manualAlbums[activeManualAlbum].mediaIds) = 2
  /\ Len(mediaForTimeline) = 1
  /\ \E i \in DOMAIN media : media[i].source = "device"

\* the records of the collection that the smart album id stands for
SmartMatches(id) ==
  {i \in DOMAIN media :
     \/ id = "all"
     \/ id = "device" /\ media[i].source = "device"
     \/ id = "videos" /\ media[i].type = "video"}

\* C23: the album row has an entry for All, From device or Videos exactly when
\* some record of the collection matches it, has it once, and the entry's count
\* is the number of matching records; no smart entry has count 0
SmartAlbumsDerived ==
  /\ \A id \in {"all", "device", "videos"} :
       LET entries == {k \in DOMAIN albums : albums[k].kind = "smart" /\ albums[k].id = id}
       IN /\ Cardinality(entries) = IF SmartMatches(id) # {} THEN 1 ELSE 0
          /\ \A k \in entries : albums[k].count = Cardinality(SmartMatches(id))
  /\ \A k \in DOMAIN albums :
       albums[k].kind = "smart" => albums[k].id \in {"all", "device", "videos"}
                                   /\ albums[k].count > 0

\* two device records are stored and the collection has a third video
DeviceAlbumListed ==
  /\ \E k \in DOMAIN albums : albums[k].id = "device" /\ albums[k].count = 2
  /\ \E k \in DOMAIN albums : albums[k].id = "videos" /\ albums[k].count = 3

\* C24: the cover shown for a manual album is the first collection record whose
\* id is the album's coverMediaId when there is one, else the first record, in
\* collection order, whose id is among the album's mediaIds, else none
CoverResolved ==
  \A i \in DOMAIN manualAlbums :
     LET a == manualAlbums[i]
         entry == albums[Len(albums) - Len(manualAlbums) + i]
         first(S) == CHOOSE j \in S : \A k \in S : j <= k
         covers == {j \in DOMAIN media : media[j].id = a.coverMediaId}
         members == {j \in DOMAIN media : media[j].id \in Range(a.mediaIds)}
     IN /\ entry.kind = "manual" /\ entry.id = a.id
        /\ entry.cover = IF covers # {} THEN <<media[first(covers)]>>
                          ELSE IF members # {} THEN <<media[first(members)]>>
                          ELSE <<>>

\* an album with no cover set whose members were added against collection order
CoverFallsBackToFirstMember ==
  \E i \in DOMAIN manualAlbums :
     /\ manualAlbums[i].coverMediaId = NoCover
     /\ manualAlbums[i].mediaIds = <<"2", "1">>

\* C25: a manual selection names an album of the list, and album edit mode is
\* on only while such an album is selected
NoDanglingActiveAlbum ==
  /\ activeAlbum.kind = "manual" => activeAlbum.id \in Ids(manualAlbums)
  /\ albumEditMode =>
       /\ activeAlbum.kind = "manual"
       /\ \E i \in DOMAIN manualAlbums : manualAlbums[i].id = activeAlbum.id

\* "Album 1" was deleted: "Album 2" is the only album left and nothing is selected
FirstAlbumDeleted ==
  /\ Len(manualAlbums) = 1
  /\ manualAlbums[1].title = "Album 2"
  /\ activeAlbum = NoAlbum
  /\ ~albumEditMode

\* C26: items are selected for upload only while select mode is on
SelectionOnlyInSelectMode == selectedIds # {} => selectMode

\* two items are selected while an earlier upload is still in flight
SelectingDuringUpload ==
  /\ uploading
  /\ selectMode
  /\ Cardinality(selectedIds) = 2

\* C27: a membership toggle, a cover setting and a confirmed rename leave the
\* media collection and every album other than the active one as they were
AlbumEditsTouchTarget ==
  [][(openItem \/ handleSetCoverForActiveAlbum \/ handleConfirmRenameAlbum)
       => /\ media' = media
          /\ Len(manualAlbums') = Len(manualAlbums)
          /\ \A i \in DOMAIN manualAlbums :
               i # activeManualAlbum => manualAlbums'[i] = manualAlbums[i]
    ]_vars

\* the same, for the albums whose id is not the active album's
AlbumEditsTouchTargetId ==
  [][(openItem \/ handleSetCoverForActiveAlbum \/ handleConfirmRenameAlbum)
       => /\ media' = media
          /\ Len(manualAlbums') = Len(manualAlbums)
          /\ \A i \in DOMAIN manualAlbums :
               activeManualAlbum # 0
               /\ manualAlbums[i].id # manualAlbums[activeManualAlbum].id
                 => manualAlbums'[i] = manualAlbums[i]
    ]_vars

\* C28: uploading becomes true only by an upload started with a non-empty
\* selection while no upload is in flight; the completion of an upload leaves
\* uploading false, select mode off and the selection empty, whatever was done
\* meanwhile; every upload in flight completes
UploadLifecycle ==
  /\ [][/\ (~uploading /\ uploading') => (handleFakeUpload /\ selectedIds # {})
        /\ handleFakeUpload => (~uploading /\ uploading')
        /\ FakeUploadDone => (~uploading' /\ ~selectMode' /\ selectedIds' = {})
        /\ (uploading /\ ~uploading') => FakeUploadDone
       ]_vars
  /\ (uploading ~> ~uploading)

\* during an upload the user left select mode and is editing a new album
EditingDuringUpload ==
  /\ uploading
  /\ ~selectMode
  /\ albumEditMode /\ activeManualAlbum # 0

\* C29: the scanningDevice flag is set exactly while a scan is in flight, a
\* scan starts only while the flag is clear, every step that ends a scan
\* (refusal, rejection, merge) clears the flag, and every scan in flight ends
ScanFlagCleared ==
  /\ [](scanningDevice <=> scanPc # "idle")
  /\ [][/\ handleScanDevice => (~scanningDevice /\ scanningDevice')
        /\ (ScanPermissionDenied \/ ScanThrows \/ ScanMerge) => ~scanningDevice'
       ]_vars
  /\ (scanningDevice ~> ~scanningDevice)

\* a scan at its last await, its records built, while a refresh is in flight
ScanAtLastAwait ==
  /\ scanningDevice
  /\ scanPc = "info"
  /\ scanItems # <<>>
  /\ inFlight # <<>>

\* C30: the person shown in the details modal has the name and the isKnown
\* flag of the entry of the people list with the same id
ModalMatchesList ==
  selectedPerson # <<>> =>
    \A i \in DOMAIN people :
      people[i].id = selectedPerson[1].id =>
        /\ people[i].name = selectedPerson[1].name
        /\ people[i].isKnown = selectedPerson[1].isKnown

====
